---------------------------- MODULE Spec2Model ----------------------------
(***************************************************************************)
(* Model of the persistence gateway of SecureShare (backend/src/db.rs):    *)
(* the files and shared_links tables, save_encrypted_file, get_shared,     *)
(* get_file and the reaper delete_expired_files, together with the         *)
(* upstream check validate_expiration_date (backend/src/dtos.rs).          *)
(*                                                                         *)
(* Every sqlx statement is executed on the pool on its own (autocommit):   *)
(* the code opens no transaction, so each statement is one atomic step     *)
(* and the statements of concurrent calls interleave. NOW() is evaluated   *)
(* by each statement separately; the clock may advance between two         *)
(* statements of the same call.                                            *)
(***************************************************************************)
EXTENDS Integers, FiniteSets, Sequences, TLC

\* ------------------------------------------------------------- bounds
\* The clock runs over 0..MaxTime.
MaxTime == 4
\* Ids handed out by the store (uuid_generate_v4) are 1..MaxUuid, never reused.
MaxUuid == 4
\* The listings are checked over tables of up to MaxLinks uploads and for the
\* pages 0..MaxPage.
MaxLinks == 3
MaxPage == 3

\* ------------------------------------------------------------- inputs
Users == {1, 2}
\* A Uuid that is the id of no row of users: save_encrypted_file takes any
\* Uuid as user_id and as recipient_user_ud.
Stranger == 3
Principals == Users \cup {Stranger}
\* Request handlers that run an upload, one per authenticated user, and the
\* one Spec lets run.
Handlers == Users
Uploader == 1
\* Invocations of the reaper, and the one Spec lets run (a single timer).
Sweepers == {1, 2}
Reaper == 1
Times == 0..MaxTime
Uuids == 1..MaxUuid
Passwords == {"secret1"}
FileNames == {"report.pdf"}
FileSizes == {1024}
Blobs == {"ciphertext"}
WrappedKeys == {"wrapped-key"}
Ivs == {"iv"}

VARIABLES
  now,                  \* the store's clock, NOW()
  files,                \* rows of table files
  links,                \* rows of table shared_links
  next_uuid,            \* next id the store generates
  \* an upload request per handler: validation, then save_encrypted_file
  cpc,                  \* position: "idle", "validated", "file_inserted"
  cargs,                \* arguments of the call
  cfile,                \* local file_id (db.rs:361), 0 before the first insert
  clink,                \* id the store gave the shared_links row, 0 if none
  cres,                 \* outcome of the last request
  \* the reaper: delete_expired_files
  spc,                  \* position: "idle", "started", "links_selected", "files_selected", "links_deleted"
  expired_shared_links, \* local Vec<Uuid> (db.rs:547)
  expired_file_ids,     \* local Vec<Uuid> (db.rs:562)
  sres,                 \* outcome of the last sweep
  \* history of sweeps, read only by properties
  sweep_t0,             \* NOW() of the first statement of the running sweep
  sweep_pre,            \* shared_links rows present at that statement
  sweep_new,            \* ids of shared_links rows inserted since that statement
  last_clean,           \* start (t0) and end (t1) time of the last complete sweep, while no row was inserted since it started; else NoSweep
  abandoned,            \* ids of files selected by a sweep that stopped after deleting the links
  overlap_pre,          \* the tables and the clock when two overlapping sweeps were started, else NoOverlap
  users,                \* rows of table users
  lres,                 \* outcome of the last listing request, else NoListing
  walk,                 \* a client fetching the pages of a listing one after the other, else NoWalk
  offs,                 \* the last offset computed for a page of any size, else NoOffset
  ures,                 \* outcome of the last call that writes table users, else NoResult
  found,                \* the last search_by_email call and the rows it returned, else NoSearch
  got                   \* the last get_user call and what it returned, else NoLookup

store == <<now, files, links, next_uuid>>
cvars == <<cpc, cargs, cfile, clink, cres>>
svars == <<spc, expired_shared_links, expired_file_ids, sres>>
hvars == <<sweep_t0, sweep_pre, sweep_new, last_clean, abandoned>>
\* Variables the upload and the reaper leave alone.
lvars == <<lres, walk, offs>>
uvars == <<ures, found, got>>
xvars == <<overlap_pre, users, lvars, uvars>>
vars == <<store, cvars, svars, hvars, xvars>>

\* ------------------------------------------------------------- rows
NoArgs ==
  [user_id |-> 0, file_name |-> "", file_size |-> 0, recipient_user_id |-> 0,
   password |-> "", expiration_date |-> 0, encrypted_aes_key |-> "",
   encrypted_file |-> "", iv |-> ""]

\* The arguments of save_encrypted_file in handler u: the owner is the user u
\* or an id without a users row, the recipient any id.
SaveArgs(u) ==
  [user_id : {u, Stranger}, file_name : FileNames, file_size : FileSizes,
   recipient_user_id : Principals, password : Passwords, expiration_date : Times,
   encrypted_aes_key : WrappedKeys, encrypted_file : Blobs, iv : Ivs]

\* Mutant of FileRow: $4 and $6 bound the other way round.
FileRowKeyAsIv(id, a, t) ==
  [id |-> id, user_id |-> a.user_id, file_name |-> a.file_name,
   file_size |-> a.file_size, encrypted_aes_key |-> a.iv,
   encrypted_file |-> a.encrypted_file, iv |-> a.encrypted_aes_key, created_at |-> t]

\* INSERT INTO files ... VALUES ($1..$6, NOW()) RETURNING id
FileRow(id, a, t) ==
  [id |-> id, user_id |-> a.user_id, file_name |-> a.file_name,
   file_size |-> a.file_size, encrypted_aes_key |-> a.encrypted_aes_key,
   encrypted_file |-> a.encrypted_file, iv |-> a.iv, created_at |-> t]

\* Mutant of LinkRow: file_id is not the id the first INSERT returned but
\* that of the oldest file.
LinkRowOldestFile(id, file_id, a, t) ==
  [id |-> id, file_id |-> 1, recipient_user_id |-> a.recipient_user_id,
   password |-> a.password, expiration_date |-> a.expiration_date,
   created_at |-> t]

\* Mutant of LinkRow: the row is addressed to the uploader instead of the recipient.
LinkRowToOwner(id, file_id, a, t) ==
  [id |-> id, file_id |-> file_id, recipient_user_id |-> a.user_id,
   password |-> a.password, expiration_date |-> a.expiration_date,
   created_at |-> t]

\* INSERT INTO shared_links (file_id, recipient_user_id, password, expiration_date, created_at)
LinkRow(id, file_id, a, t) ==
  [id |-> id, file_id |-> file_id, recipient_user_id |-> a.recipient_user_id,
   password |-> a.password, expiration_date |-> a.expiration_date,
   created_at |-> t]

\* No complete sweep to refer to.
NoSweep == [t0 |-> -1, t1 |-> -1]

\* public_key IS NULL
Null == "<null>"

\* INSERT INTO users (name, email, password) ... RETURNING *: public_key is
\* NULL, created_at and updated_at take their default.
UserRow(id, name, email, password, t) ==
  [id |-> id, name |-> name, email |-> email, password |-> password,
   public_key |-> Null, created_at |-> t, updated_at |-> t]

\* Emails are sequences of characters.
Names == {"ann", "bob"}
Emails == {<<"a", "@", "c">>, <<"b", "@", "c">>}
UserName(u) == IF u = 1 THEN "ann" ELSE "bob"
UserEmail(u) == IF u = 1 THEN <<"a", "@", "c">> ELSE <<"b", "@", "c">>

\* The accounts of the users that upload and receive.
RegisteredUsers == {UserRow(u, UserName(u), UserEmail(u), "hash", 0) : u \in Users}

NoResult == [op |-> "", status |-> "none", id |-> 0]
NoSearch == [user_id |-> 0, query |-> <<>>, status |-> "none", rows |-> {}]
\* Option: None is {}, Some(x) is {x}.
NoLookup == [called |-> FALSE, user_id |-> {}, name |-> {}, email |-> {}, user |-> {}]

\* No overlapping sweeps to refer to.
NoOverlap == [now |-> -1, files |-> {}, links |-> {}]

\* fetch_optional: None is {}, Some(row) is {row}.
fetch_optional(rows) == IF rows = {} THEN {} ELSE {CHOOSE r \in rows : TRUE}

\* ------------------------------------------------------------- queries
\* parsed_date <= now is rejected (dtos.rs:279).
validate_expiration_date(expiration_date, t) == expiration_date > t

\* Mutant of SharedRows: the expiration date is not compared.
SharedRowsAnyTime(ls, t, shared_id, user_id) ==
  {l \in ls : /\ l.id = shared_id
              /\ l.recipient_user_id = user_id}

\* Mutant of SharedRows: expiration_date >= NOW().
SharedRowsInclusive(ls, t, shared_id, user_id) ==
  {l \in ls : /\ l.id = shared_id
              /\ l.recipient_user_id = user_id
              /\ l.expiration_date >= t}

\* Mutant of SharedRows: the recipient is not compared.
SharedRowsAnyRecipient(ls, t, shared_id, user_id) ==
  {l \in ls : /\ l.id = shared_id
              /\ l.expiration_date > t}

\* WHERE id = $1 AND recipient_user_id = $2 AND expiration_date > NOW()
SharedRows(ls, t, shared_id, user_id) ==
  {l \in ls : /\ l.id = shared_id
              /\ l.recipient_user_id = user_id
              /\ l.expiration_date > t}

get_shared(shared_id, user_id) == fetch_optional(SharedRows(links, now, shared_id, user_id))

\* SELECT ... FROM files WHERE id = $1
FileRows(fs, file_id) == {f \in fs : f.id = file_id}

get_file(file_id) == fetch_optional(FileRows(files, file_id))

\* Mutant of ExpiredLinkIds: the SELECT without its WHERE clause.
ExpiredLinkIdsAll(ls, t) == {l.id : l \in ls}

\* Mutant of ExpiredLinkIds: expiration_date <= NOW().
ExpiredLinkIdsInclusive(ls, t) == {l.id : l \in {x \in ls : x.expiration_date <= t}}

\* SELECT sl.id FROM shared_links sl WHERE sl.expiration_date < NOW()
ExpiredLinkIds(ls, t) == {l.id : l \in {x \in ls : x.expiration_date < t}}

\* Mutant of ExpiredFileIds: the subquery does not filter on expiration_date.
ExpiredFileIdsAnyLink(fs, ls, t) ==
  {f.id : f \in {x \in fs : \E l \in ls : l.file_id = x.id}}

\* SELECT f.id FROM files f WHERE f.id IN
\*   (SELECT sl.file_id FROM shared_links sl WHERE sl.expiration_date < NOW())
ExpiredFileIds(fs, ls, t) ==
  {f.id : f \in {x \in fs : \E l \in ls : l.file_id = x.id /\ l.expiration_date < t}}

\* DELETE FROM shared_links WHERE id = ANY($1)
LinksAfterDelete(ls, ids) == {l \in ls : l.id \notin ids}

\* What DELETE FROM files does to shared_links. The table definitions are not
\* part of the gateway; the schema of the specification (section 6) declares
\* shared_links.file_id as a plain column, with no reference to files, so no
\* shared_links row is deleted or protected when a files row goes.
LinksAfterFileDelete(ls, ids) == ls

\* DELETE FROM files WHERE id = ANY($1)
FilesAfterDelete(fs, ids) == {f \in fs : f.id \notin ids}

\* ------------------------------------------------------------- initial state
\* ------------------------------------------------------------- listings
\* u32 arithmetic of the offset (db.rs:441, 495): a u32 is held as two 16-bit
\* halves, [hi, lo] standing for hi * 2^16 + lo.
Half == 65536
ToU32(n) == [hi |-> (n \div Half) % Half, lo |-> n % Half]
\* x - 1 on u32 (page - 1, db.rs:441, 495): with x = 0 the subtraction
\* overflows; a build with overflow checks panics there and a build without
\* them goes on with the wrapped value 2^32 - 1.
U32Pred(x) ==
  IF x.lo > 0 THEN {[status |-> "ok", value |-> [x EXCEPT !.lo = x.lo - 1]]}
  ELSE IF x.hi > 0 THEN {[status |-> "ok", value |-> [hi |-> x.hi - 1, lo |-> Half - 1]]}
  ELSE {[status |-> "panic", value |-> ToU32(0)],
        [status |-> "ok", value |-> [hi |-> Half - 1, lo |-> Half - 1]]}
\* x * k does not fit 32 bits.
U32TimesOverflows(x, k) == x.hi * k + (x.lo * k) \div Half >= Half
\* x * k on u32, for k up to MaxLimitDto: when the product does not fit, a
\* build with overflow checks panics and a build without them goes on with
\* the product modulo 2^32.
U32Times(x, k) ==
  LET wrapped == [hi |-> (x.hi * k + (x.lo * k) \div Half) % Half, lo |-> (x.lo * k) % Half]
  IN  IF U32TimesOverflows(x, k)
      THEN {[status |-> "panic", value |-> ToU32(0)], [status |-> "ok", value |-> wrapped]}
      ELSE {[status |-> "ok", value |-> wrapped]}
\* x >= n for a small natural n
U32AtLeast(x, n) == x.hi > 0 \/ x.lo >= n
\* RequestQueryDto: limit is at most 50 (dtos.rs:66).
MaxLimitDto == 50

\* Mutant of ValidQuery: page has no lower bound.
ValidQueryAnyPage(page, limit) == limit >= 1 /\ limit <= MaxLimitDto

\* #[validate(range(min = 1))] page, #[validate(range(min = 1, max = 50))] limit
ValidQuery(page, limit) == page >= 1 /\ limit >= 1 /\ limit <= MaxLimitDto

\* let offset = (page - 1) * limit as u32, page being a u32: the outcomes of
\* the subtraction followed by the multiplication. A panic ends the call
\* before any statement is sent to the store.
Offset(page, limit) ==
  UNION {IF a.status = "panic"
         THEN {[status |-> "panic", offset |-> ToU32(0)]}
         ELSE {[status |-> b.status, offset |-> b.value] : b \in U32Times(a.value, limit)} :
         a \in U32Pred(page)}

NoOffset == [status |-> "none", page |-> ToU32(0), limit |-> 0, offset |-> ToU32(0)]

\* Mutant of SentRows: the join without WHERE f.user_id = $1.
SentRowsAnyOwner(fs, ls, us, user_id) ==
  {r \in [l : ls, f : fs, u : us] :
     /\ r.l.file_id = r.f.id
     /\ r.l.recipient_user_id = r.u.id}

\* shared_links sl JOIN files f ON sl.file_id = f.id JOIN users u ON
\* sl.recipient_user_id = u.id WHERE f.user_id = $1
SentRows(fs, ls, us, user_id) ==
  {r \in [l : ls, f : fs, u : us] :
     /\ r.l.file_id = r.f.id
     /\ r.l.recipient_user_id = r.u.id
     /\ r.f.user_id = user_id}

\* shared_links sl JOIN files f ON sl.file_id = f.id JOIN users u ON
\* f.user_id = u.id WHERE sl.recipient_user_id = $1
ReceivedRows(fs, ls, us, user_id) ==
  {r \in [l : ls, f : fs, u : us] :
     /\ r.l.file_id = r.f.id
     /\ r.f.user_id = r.u.id
     /\ r.l.recipient_user_id = user_id}

\* SELECT COUNT(*) FROM shared_links sl JOIN files f ON sl.file_id = f.id
\* WHERE f.user_id = $1
SentCount(fs, ls, user_id) ==
  Cardinality({r \in [l : ls, f : fs] : r.l.file_id = r.f.id /\ r.f.user_id = user_id})

\* SELECT COUNT(*) FROM shared_links sl JOIN files f ON sl.file_id = f.id
\* WHERE sl.recipient_user_id = $1
ReceivedCount(fs, ls, user_id) ==
  Cardinality({r \in [l : ls, f : fs] :
                 r.l.file_id = r.f.id /\ r.l.recipient_user_id = user_id})

\* SELECT f.id AS file_id, f.file_name, u.email AS recipient_email,
\*        sl.expiration_date, sl.created_at
SendFileDetails(r) ==
  [file_id |-> r.f.id, file_name |-> r.f.file_name, email |-> r.u.email,
   expiration_date |-> r.l.expiration_date, created_at |-> r.l.created_at]

\* SELECT sl.id AS file_id, f.file_name, u.email AS sender_email,
\*        sl.expiration_date, sl.created_at
ReceiveFileDetails(r) ==
  [file_id |-> r.l.id, file_name |-> r.f.file_name, email |-> r.u.email,
   expiration_date |-> r.l.expiration_date, created_at |-> r.l.created_at]

\* ORDER BY sl.created_at DESC: every order of the rows in which created_at
\* does not increase; rows with equal created_at come in any order, which the
\* store is free to choose anew for each query.
OrderByCreatedAtDesc(rows) ==
  LET n == Cardinality(rows) IN
  {s \in [1..n -> rows] :
     /\ \A i \in 1..n, j \in 1..n : i # j => s[i] # s[j]
     /\ \A i \in 1..n, j \in 1..n : i < j => s[i].l.created_at >= s[j].l.created_at}

\* LIMIT $2 OFFSET $3
LimitOffset(s, limit, offset) ==
  IF U32AtLeast(offset, Len(s)) THEN <<>>
  ELSE [i \in 1..(IF Len(s) - offset.lo < limit THEN Len(s) - offset.lo ELSE limit) |->
          s[offset.lo + i]]

\* The rows a listing joins and the count it returns.
ListRows(op, user_id) ==
  IF op = "sent" THEN SentRows(files, links, users, user_id)
  ELSE ReceivedRows(files, links, users, user_id)
ListCount(op, user_id) ==
  IF op = "sent" THEN SentCount(files, links, user_id)
  ELSE ReceivedCount(files, links, user_id)
ListView(op, r) == IF op = "sent" THEN SendFileDetails(r) ELSE ReceiveFileDetails(r)

\* The first statement of get_sent_files / get_receive_files (db.rs:443-470,
\* 497-524): the Vec of views the page query can return over the current
\* tables.
PageQuery(op, user_id, limit, offset) ==
  {LimitOffset([i \in 1..Len(s) |-> ListView(op, s[i])], limit, offset) :
     s \in OrderByCreatedAtDesc(ListRows(op, user_id))}

\* get_sent_files / get_receive_files up to the first .await: the offset is
\* computed and, unless that panics, the page query runs.
ListPage(op, user_id, page, limit) ==
  UNION {IF o.status = "panic"
         THEN {[status |-> "panic", offset |-> o.offset, files |-> <<>>]}
         ELSE {[status |-> "paged", offset |-> o.offset, files |-> fs] :
                 fs \in PageQuery(op, user_id, limit, o.offset)} :
         o \in Offset(ToU32(page), limit)}

NoListing ==
  [status |-> "none", op |-> "", user_id |-> 0, page |-> 0, limit |-> 0,
   offset |-> ToU32(0), files |-> <<>>, total_count |-> -1]
NoWalk ==
  [op |-> "", user_id |-> 0, limit |-> 0, page |-> 0, files |-> <<>>,
   counts |-> {}, pending |-> FALSE, done |-> FALSE]

Init ==
  /\ now = 0
  /\ files = {}
  /\ links = {}
  /\ next_uuid = 1
  /\ cpc = [c \in Handlers |-> "idle"]
  /\ cargs = [c \in Handlers |-> NoArgs]
  /\ cfile = [c \in Handlers |-> 0]
  /\ clink = [c \in Handlers |-> 0]
  /\ cres = [c \in Handlers |-> "none"]
  /\ spc = [s \in Sweepers |-> "idle"]
  /\ expired_shared_links = [s \in Sweepers |-> {}]
  /\ expired_file_ids = [s \in Sweepers |-> {}]
  /\ sres = [s \in Sweepers |-> "none"]
  /\ sweep_t0 = [s \in Sweepers |-> 0]
  /\ sweep_pre = [s \in Sweepers |-> {}]
  /\ sweep_new = [s \in Sweepers |-> {}]
  /\ last_clean = NoSweep
  /\ abandoned = {}
  /\ overlap_pre = NoOverlap
  /\ users = RegisteredUsers
  /\ lres = NoListing
  /\ walk = NoWalk
  /\ offs = NoOffset
  /\ ures = NoResult
  /\ found = NoSearch
  /\ got = NoLookup

\* ------------------------------------------------------------- clock
Tick ==
  /\ now < MaxTime
  /\ now' = now + 1
  /\ UNCHANGED <<files, links, next_uuid, cvars, svars, hvars>>
  /\ UNCHANGED xvars

\* ------------------------------------------------------------- upload
\* Ids still to be generated by the uploads under way.
Reserved ==
  2 * Cardinality({c \in Handlers : cpc[c] = "validated"})
  + Cardinality({c \in Handlers : cpc[c] = "file_inserted"})

\* The request layer validates the body (validate_expiration_date) before it
\* calls the gateway; a rejected request never reaches save_encrypted_file.
Validate(c) ==
  /\ cpc[c] = "idle"
  /\ next_uuid + Reserved + 1 <= MaxUuid
  /\ \E a \in SaveArgs(c) :
       IF validate_expiration_date(a.expiration_date, now)
       THEN /\ cpc' = [cpc EXCEPT ![c] = "validated"]
            /\ cargs' = [cargs EXCEPT ![c] = a]
            /\ cfile' = [cfile EXCEPT ![c] = 0]
            /\ clink' = [clink EXCEPT ![c] = 0]
            /\ cres' = [cres EXCEPT ![c] = "none"]
       ELSE /\ cres' = [cres EXCEPT ![c] = "invalid"]
            /\ UNCHANGED <<cpc, cargs, cfile, clink>>
  /\ UNCHANGED <<store, svars, hvars>>
  /\ UNCHANGED xvars

\* First statement of save_encrypted_file: INSERT INTO files ... RETURNING id.
InsertFile(c) ==
  /\ cpc[c] = "validated"
  /\ files' = files \cup {FileRow(next_uuid, cargs[c], now)}
  /\ cfile' = [cfile EXCEPT ![c] = next_uuid]
  /\ next_uuid' = next_uuid + 1
  /\ cpc' = [cpc EXCEPT ![c] = "file_inserted"]
  /\ last_clean' = NoSweep
  /\ UNCHANGED <<now, links, cargs, clink, cres, svars,
                 sweep_t0, sweep_pre, sweep_new, abandoned>>
  /\ UNCHANGED xvars

\* Second statement: INSERT INTO shared_links ..., then Ok(()).
InsertLink(c) ==
  /\ cpc[c] = "file_inserted"
  /\ links' = links \cup {LinkRow(next_uuid, cfile[c], cargs[c], now)}
  /\ clink' = [clink EXCEPT ![c] = next_uuid]
  /\ next_uuid' = next_uuid + 1
  /\ cpc' = [cpc EXCEPT ![c] = "idle"]
  /\ cres' = [cres EXCEPT ![c] = "ok"]
  /\ sweep_new' = [s \in Sweepers |->
                     IF spc[s] \notin {"idle", "started"}
                     THEN sweep_new[s] \cup {next_uuid}
                     ELSE sweep_new[s]]
  /\ last_clean' = NoSweep
  /\ UNCHANGED <<now, files, cargs, cfile, svars,
                 sweep_t0, sweep_pre, abandoned>>
  /\ UNCHANGED xvars

\* Mutant of SaveFail: the error is noted and the statement is issued again.
SaveFailRetry(c) ==
  /\ cpc[c] \in {"validated", "file_inserted"}
  /\ cres' = [cres EXCEPT ![c] = "err"]
  /\ UNCHANGED <<now, files, links, next_uuid, cpc, cargs, cfile, clink, svars, hvars>>
  /\ UNCHANGED xvars

\* The statement about to run fails (or the call is dropped at the await):
\* `?` returns the error; what earlier statements wrote stays written.
SaveFail(c) ==
  /\ cpc[c] \in {"validated", "file_inserted"}
  /\ cpc' = [cpc EXCEPT ![c] = "idle"]
  /\ cres' = [cres EXCEPT ![c] = "err"]
  /\ UNCHANGED <<now, files, links, next_uuid, cargs, cfile, clink, svars, hvars>>
  /\ UNCHANGED xvars

\* ------------------------------------------------------------- reaper
\* The timer (or an explicit trigger) calls delete_expired_files.
StartSweep(s) ==
  /\ spc[s] = "idle"
  /\ spc' = [spc EXCEPT ![s] = "started"]
  /\ sres' = [sres EXCEPT ![s] = "none"]
  /\ UNCHANGED <<store, cvars, expired_shared_links, expired_file_ids, hvars>>
  /\ UNCHANGED xvars

\* First statement of delete_expired_files and the early return on an empty
\* result (db.rs:547-560).
SelectLinks(s) ==
  /\ spc[s] = "started"
  /\ LET ids == ExpiredLinkIds(links, now) IN
       IF ids = {}
       THEN /\ spc' = [spc EXCEPT ![s] = "idle"]
            /\ sres' = [sres EXCEPT ![s] = "noop"]
            /\ UNCHANGED <<expired_shared_links, sweep_t0, sweep_pre, last_clean>>
       ELSE /\ spc' = [spc EXCEPT ![s] = "links_selected"]
            /\ expired_shared_links' = [expired_shared_links EXCEPT ![s] = ids]
            /\ sres' = [sres EXCEPT ![s] = "none"]
            /\ sweep_t0' = [sweep_t0 EXCEPT ![s] = now]
            /\ sweep_pre' = [sweep_pre EXCEPT ![s] = links]
            /\ last_clean' = NoSweep
  /\ sweep_new' = [sweep_new EXCEPT ![s] = {}]
  /\ UNCHANGED <<store, cvars, expired_file_ids, abandoned>>
  /\ UNCHANGED xvars

\* Second statement (db.rs:562-574).
SelectFiles(s) ==
  /\ spc[s] = "links_selected"
  /\ expired_file_ids' = [expired_file_ids EXCEPT ![s] = ExpiredFileIds(files, links, now)]
  /\ spc' = [spc EXCEPT ![s] = "files_selected"]
  /\ UNCHANGED <<store, cvars, expired_shared_links, sres, hvars>>
  /\ UNCHANGED xvars

\* Third statement (db.rs:576-584).
DeleteLinks(s) ==
  /\ spc[s] = "files_selected"
  /\ links' = LinksAfterDelete(links, expired_shared_links[s])
  /\ spc' = [spc EXCEPT ![s] = "links_deleted"]
  /\ UNCHANGED <<now, files, next_uuid, cvars,
                 expired_shared_links, expired_file_ids, sres, hvars>>
  /\ UNCHANGED xvars

\* Fourth statement, then Ok(()) (db.rs:587-599).
DeleteFiles(s) ==
  /\ spc[s] = "links_deleted"
  /\ files' = FilesAfterDelete(files, expired_file_ids[s])
  /\ links' = LinksAfterFileDelete(links, expired_file_ids[s])
  /\ spc' = [spc EXCEPT ![s] = "idle"]
  /\ sres' = [sres EXCEPT ![s] = "ok"]
  /\ expired_shared_links' = [expired_shared_links EXCEPT ![s] = {}]
  /\ expired_file_ids' = [expired_file_ids EXCEPT ![s] = {}]
  /\ last_clean' = IF sweep_new[s] = {} THEN [t0 |-> sweep_t0[s], t1 |-> now] ELSE NoSweep
  /\ sweep_t0' = [sweep_t0 EXCEPT ![s] = 0]
  /\ sweep_pre' = [sweep_pre EXCEPT ![s] = {}]
  /\ sweep_new' = [sweep_new EXCEPT ![s] = {}]
  /\ UNCHANGED <<now, next_uuid, cvars, abandoned>>
  /\ UNCHANGED xvars

\* The statement about to run fails, or the sweep is interrupted at the await.
SweepFail(s) ==
  /\ spc[s] \in {"started", "links_selected", "files_selected", "links_deleted"}
  /\ spc' = [spc EXCEPT ![s] = "idle"]
  /\ sres' = [sres EXCEPT ![s] = "err"]
  /\ expired_shared_links' = [expired_shared_links EXCEPT ![s] = {}]
  /\ expired_file_ids' = [expired_file_ids EXCEPT ![s] = {}]
  /\ abandoned' = IF spc[s] = "links_deleted"
                  THEN abandoned \cup {f.id : f \in {x \in files : x.id \in expired_file_ids[s]}}
                  ELSE abandoned
  /\ sweep_t0' = [sweep_t0 EXCEPT ![s] = 0]
  /\ sweep_pre' = [sweep_pre EXCEPT ![s] = {}]
  /\ sweep_new' = [sweep_new EXCEPT ![s] = {}]
  /\ UNCHANGED <<now, files, links, next_uuid, cvars, last_clean>>
  /\ UNCHANGED xvars

\* ------------------------------------------------------------- specification
Next ==
  \/ Tick
  \/ \E c \in {Uploader} : Validate(c)
  \/ \E c \in {Uploader} : InsertFile(c)
  \/ \E c \in {Uploader} : InsertLink(c)
  \/ \E c \in {Uploader} : SaveFail(c)
  \/ \E s \in {Reaper} : StartSweep(s)
  \/ \E s \in {Reaper} : SelectLinks(s)
  \/ \E s \in {Reaper} : SelectFiles(s)
  \/ \E s \in {Reaper} : DeleteLinks(s)
  \/ \E s \in {Reaper} : DeleteFiles(s)
  \/ \E s \in {Reaper} : SweepFail(s)

Spec == Init /\ [][Next]_vars

\* The reaper re-run after an interruption: once a sweep has stopped between
\* its two deletions, no further statement of a sweep fails.
SweepFailOnce(s) == abandoned = {} /\ SweepFail(s)

RerunNext ==
  \/ Tick
  \/ \E c \in {Uploader} : Validate(c)
  \/ \E c \in {Uploader} : InsertFile(c)
  \/ \E c \in {Uploader} : InsertLink(c)
  \/ \E c \in {Uploader} : SaveFail(c)
  \/ \E s \in {Reaper} : StartSweep(s)
  \/ \E s \in {Reaper} : SelectLinks(s)
  \/ \E s \in {Reaper} : SelectFiles(s)
  \/ \E s \in {Reaper} : DeleteLinks(s)
  \/ \E s \in {Reaper} : DeleteFiles(s)
  \/ \E s \in {Reaper} : SweepFailOnce(s)

\* The timer keeps calling the reaper, and a statement of the sweep that is
\* ready to run does run.
SweepRuns(s) ==
  StartSweep(s) \/ SelectLinks(s) \/ SelectFiles(s) \/ DeleteLinks(s) \/ DeleteFiles(s)

FairSpec == Init /\ [][RerunNext]_vars /\ WF_vars(SweepRuns(Reaper))

\* ------------------------------------------------------------- claims

\* C1: save_encrypted_file is atomic: when a call returns, with Ok or with an
\* error, the File it inserted and the SharedLink paired with it are both
\* persisted or both absent.
C1_SaveAtomic ==
  [][\A c \in Handlers :
       (cpc[c] # "idle" /\ cpc'[c] = "idle") =>
         LET file_there == cfile'[c] # 0 /\ FileRows(files', cfile'[c]) # {}
             link_there == cfile'[c] # 0 /\ \E l \in links' : l.file_id = cfile'[c]
         IN  file_there <=> link_there]_vars

\* C2: referential invariant: in every reachable state the file_id of every
\* persisted SharedLink is the id of a persisted File.
C2_LinksReferToFiles ==
  \A l \in links : FileRows(files, l.file_id) # {}

\* C3: get_shared(shared_id, user_id) returns a link if and only if a persisted
\* SharedLink has that id, that recipient and an expiration_date strictly after
\* the current time, and then returns that link; a link that expires exactly
\* now is absent.
C3_FetchSharedLinkIff ==
  \A shared_id \in Uuids, user_id \in Users :
    LET matching == {l \in links : l.id = shared_id}
        usable(l) == l.recipient_user_id = user_id /\ ~(l.expiration_date <= now)
    IN  /\ (get_shared(shared_id, user_id) # {}) <=> (\E l \in matching : usable(l))
        /\ \A l \in matching : usable(l) => get_shared(shared_id, user_id) = {l}
        /\ \A l \in matching : l.expiration_date = now => get_shared(shared_id, user_id) = {}

C3_Witness ==
  /\ \E l \in links : /\ l.expiration_date = now
                      /\ get_shared(l.id, l.recipient_user_id) = {}
  /\ \E l \in links : get_shared(l.id, l.recipient_user_id) = {l}

\* C4: enumeration resistance: for a caller, an id no link has, the id of a
\* link addressed to somebody else and the id of the caller's own expired link
\* all yield the same absent result.
NoSuchLink(shared_id) == \A l \in links : l.id # shared_id
ForeignLink(shared_id, user_id) ==
  \E l \in links : l.id = shared_id /\ l.recipient_user_id # user_id
OwnExpiredLink(shared_id, user_id) ==
  \E l \in links : /\ l.id = shared_id
                   /\ l.recipient_user_id = user_id
                   /\ l.expiration_date <= now
Refused(shared_id, user_id) ==
  \/ NoSuchLink(shared_id)
  \/ ForeignLink(shared_id, user_id)
  \/ OwnExpiredLink(shared_id, user_id)

C4_EnumerationResistance ==
  \A user_id \in Users :
    LET refused == {id \in Uuids : Refused(id, user_id)}
        results == {get_shared(id, user_id) : id \in refused}
    IN  \* one and the same result for all of them, and it is None
        results \subseteq {{}}

C4_Witness ==
  \E user_id \in Users : \E id1 \in Uuids, id2 \in Uuids, id3 \in Uuids :
    /\ NoSuchLink(id1) /\ ForeignLink(id2, user_id) /\ OwnExpiredLink(id3, user_id)
    /\ \E l \in links : l.id = id2 /\ l.expiration_date > now
    /\ get_shared(id1, user_id) = {}
    /\ get_shared(id2, user_id) = {}
    /\ get_shared(id3, user_id) = {}

\* C5: round trip: after a successful save_encrypted_file, and until the
\* expiration date given to it, get_shared(id of the created link, recipient)
\* returns a link whose recipient, password and expiration date are the
\* arguments and whose file_id is the id of the File the same call inserted.
C5_RoundTrip ==
  \A c \in Handlers :
    (cres[c] = "ok" /\ now < cargs[c].expiration_date) =>
      /\ get_shared(clink[c], cargs[c].recipient_user_id) # {}
      /\ \A l \in get_shared(clink[c], cargs[c].recipient_user_id) :
           /\ l.recipient_user_id = cargs[c].recipient_user_id
           /\ l.password = cargs[c].password
           /\ l.expiration_date = cargs[c].expiration_date
           /\ l.file_id = cfile[c]
           /\ \E f \in get_file(l.file_id) : f.user_id = cargs[c].user_id

C5_Witness ==
  \E c \in Handlers :
    /\ cres[c] = "ok"
    /\ now < cargs[c].expiration_date
    /\ cargs[c].recipient_user_id # cargs[c].user_id
    /\ \E l \in get_shared(clink[c], cargs[c].recipient_user_id) :
         l.created_at < now /\ l.file_id = cfile[c]

\* C6: reaper effect: when a sweep that started at time t completes, every
\* SharedLink that was persisted at t with expiration_date < t is gone together
\* with its File, get_shared and get_file for them are absent, and every
\* SharedLink that was persisted at t with expiration_date after t is persisted
\* with its File.
C6_ReaperEffect ==
  [][\A s \in Sweepers :
       DeleteFiles(s) =>
         /\ \A l \in sweep_pre[s] :
              l.expiration_date < sweep_t0[s] =>
                /\ l \notin links'
                /\ \A u \in Users : fetch_optional(SharedRows(links', now', l.id, u)) = {}
                /\ fetch_optional(FileRows(files', l.file_id)) = {}
         /\ \A l \in sweep_pre[s] :
              l.expiration_date > sweep_t0[s] =>
                /\ l \in links'
                /\ FileRows(files', l.file_id) # {}
                /\ FileRows(files', l.file_id) = FileRows(files, l.file_id)]_vars

\* C7: reaper idempotence.
\* A sweep whose first statement runs when no SharedLink has
\* expiration_date < now.
NothingExpired == \A l \in links : ~(l.expiration_date < now)
\* A sweep that follows a complete sweep, nothing having been inserted since
\* that sweep started and no SharedLink having expired since time t.
NothingSince(t) ==
  /\ t >= 0
  /\ \A l \in links : ~(t <= l.expiration_date /\ l.expiration_date < now)
\* The sweep returns at once and changes no row.
SweepIsNoOp(s) ==
  /\ spc'[s] = "idle"
  /\ sres'[s] = "noop"
  /\ files' = files
  /\ links' = links

\* C7 as stated: a second sweep right after a complete sweep, with no other
\* operation and no SharedLink expiring between the two sweeps (since the
\* first one completed), changes nothing; and a sweep started when no
\* SharedLink has expiration_date < now changes nothing.
C7_IdempotentBetweenSweeps ==
  [][\A s \in Sweepers :
       (SelectLinks(s) /\ (NothingExpired \/ NothingSince(last_clean.t1))) =>
         SweepIsNoOp(s)]_vars

\* C7 amended: the same, no SharedLink having expired since the first sweep
\* ran its first statement (its selection).
C7_ReaperIdempotent ==
  [][\A s \in Sweepers :
       (SelectLinks(s) /\ (NothingExpired \/ NothingSince(last_clean.t0))) =>
         SweepIsNoOp(s)]_vars

C7_Witness ==
  /\ spc[Reaper] = "idle" /\ sres[Reaper] = "noop"
  /\ last_clean.t0 >= 0 /\ now > last_clean.t1
  /\ links # {}
  /\ Cardinality(files) = Cardinality(links)
  /\ next_uuid > 2 * Cardinality(links) + 1

\* C8: reaper convergence: a File left behind by a sweep that stopped after
\* deleting the expired SharedLinks is eventually deleted by a later sweep.
C8_OrphansReclaimed ==
  \A id \in Uuids :
    (id \in abandoned /\ FileRows(files, id) # {}) ~> (FileRows(files, id) = {})

\* C9: the two deletions of the reaper are one transaction: when a sweep fails
\* after its SharedLink deletion was issued, the deletion is rolled back, so
\* the rows the sweep had selected are all persisted after the failure.
C9_FailedSweepRollsBack ==
  [][\A s \in Sweepers :
       SweepFail(s) =>
         /\ \A id \in expired_shared_links[s] :
              (\E l \in sweep_pre[s] : l.id = id) => \E l \in links' : l.id = id
         /\ \A id \in expired_file_ids[s] : FileRows(files', id) # {}]_vars

\* C10: create/reap non-interference: a SharedLink inserted, by an upload that
\* passed validation, while a sweep is running is not selected by that sweep,
\* and neither it nor its File is deleted by that sweep.
C10_CreateReapIndependent ==
  [][\A s \in Sweepers : \A id \in sweep_new[s] :
       /\ id \notin expired_shared_links'[s]
       /\ \E l \in links' : /\ l.id = id
                            /\ FileRows(files', l.file_id) # {}]_vars

\* ------------------------------------------------------------- overlapping sweeps
\* Uploads fill the tables before the sweeps are started.
BeforeOverlap(c) ==
  /\ overlap_pre = NoOverlap
  /\ (Validate(c) \/ InsertFile(c) \/ InsertLink(c))

\* Two invocations of delete_expired_files are started (two timers, or a
\* timer and an explicit trigger); their statements then interleave.
StartOverlap ==
  /\ overlap_pre = NoOverlap
  /\ \A c \in Handlers : cpc[c] = "idle"
  /\ \A s \in Sweepers : spc[s] = "idle"
  /\ overlap_pre' = [now |-> now, files |-> files, links |-> links]
  /\ spc' = [s \in Sweepers |-> "started"]
  /\ sres' = [s \in Sweepers |-> "none"]
  /\ UNCHANGED <<store, cvars, expired_shared_links, expired_file_ids, hvars>>
  /\ UNCHANGED <<users, lvars, uvars>>

OverlapNext ==
  \/ Tick
  \/ \E c \in {Uploader} : BeforeOverlap(c)
  \/ StartOverlap
  \/ \E s \in Sweepers : SelectLinks(s)
  \/ \E s \in Sweepers : SelectFiles(s)
  \/ \E s \in Sweepers : DeleteLinks(s)
  \/ \E s \in Sweepers : DeleteFiles(s)

OverlapSpec == Init /\ [][OverlapNext]_vars

\* The tables one sweep leaves when its first statement runs at t1 and its
\* second at t2 (db.rs:547-599).
SingleSweepLinks(ls, t1) == LinksAfterDelete(ls, ExpiredLinkIds(ls, t1))
SingleSweepFiles(fs, ls, t1, t2) ==
  IF ExpiredLinkIds(ls, t1) = {} THEN fs
  ELSE FilesAfterDelete(fs, ExpiredFileIds(fs, ls, t2))

\* Both overlapping sweeps have returned.
OverlapDone ==
  /\ overlap_pre # NoOverlap
  /\ \A s \in Sweepers : spc[s] = "idle"

\* C11: overlapping sweeps need no serialization: whatever the interleaving of
\* the statements of two sweeps, (1) once both have returned the tables are
\* those one sweep leaves (first statement at some t1, second at some t2,
\* within the time the two sweeps ran), (2) every link a statement deletes is
\* expired and every File it deletes is referenced by no link that is not
\* expired, and (3) a sweep whose selected ids were already deleted by the
\* other still runs its DELETE and returns Ok.
C11_OverlapNeedsNoSerialization ==
  [][/\ OverlapDone' =>
          /\ \E t1 \in Times, t2 \in Times :
               /\ overlap_pre'.now <= t1 /\ t1 <= t2 /\ t2 <= now'
               /\ links' = SingleSweepLinks(overlap_pre'.links, t1)
               /\ files' = SingleSweepFiles(overlap_pre'.files, overlap_pre'.links, t1, t2)
          /\ \A s \in Sweepers : sres'[s] \in {"ok", "noop"}
     /\ \A l \in links \ links' : l.expiration_date < now
     /\ \A f \in files \ files' :
          \A l \in links : l.file_id = f.id => l.expiration_date < now
     /\ \A s \in Sweepers :
          /\ spc[s] = "files_selected" => ENABLED DeleteLinks(s)
          /\ spc[s] = "links_deleted" => ENABLED DeleteFiles(s)]_vars

\* One sweep has returned Ok, the other is about to run DELETE FROM files on
\* ids the first has already deleted, and a link that is not expired is
\* persisted with its File.
C11_Witness ==
  /\ overlap_pre # NoOverlap
  /\ \E s \in Sweepers, o \in Sweepers :
       /\ sres[o] = "ok" /\ spc[o] = "idle"
       /\ spc[s] = "links_deleted"
       /\ expired_file_ids[s] # {}
       /\ \A id \in expired_file_ids[s] : FileRows(files, id) = {}
  /\ \E l \in links : l.expiration_date >= now /\ FileRows(files, l.file_id) # {}

\* ------------------------------------------------------------- listing requests
ListOps == {"sent", "received"}
PageInputs == 0..MaxPage
LimitInputs == {0, 1, 2, MaxLimitDto, MaxLimitDto + 1}

\* created_at of the j-th upload when d[i] = 1 says that the clock moved
\* before the i-th upload.
Stamp(d, j) == Cardinality({i \in 1..j : d[i] = 1})

\* The arguments of an upload of owner o to recipient r.
ShareArgs(o, r) ==
  CHOOSE a \in SaveArgs(o) :
    a.user_id = o /\ a.recipient_user_id = r /\ a.expiration_date = MaxTime

\* The tables after n complete uploads (file 2j-1 and link 2j by the j-th),
\* by any owners to any recipients, with or without a users row, some of
\* them within the same clock tick.
ListInit ==
  /\ \E n \in 0..MaxLinks :
       \E o \in [1..n -> Principals], r \in [1..n -> Principals], d \in [1..n -> {0, 1}] :
         /\ files = {FileRow(2 * j - 1, ShareArgs(o[j], r[j]), Stamp(d, j)) : j \in 1..n}
         /\ links = {LinkRow(2 * j, 2 * j - 1, ShareArgs(o[j], r[j]), Stamp(d, j)) : j \in 1..n}
         /\ now = Stamp(d, n)
         /\ next_uuid = 2 * n + 1
  /\ cpc = [c \in Handlers |-> "idle"]
  /\ cargs = [c \in Handlers |-> NoArgs]
  /\ cfile = [c \in Handlers |-> 0]
  /\ clink = [c \in Handlers |-> 0]
  /\ cres = [c \in Handlers |-> "none"]
  /\ spc = [s \in Sweepers |-> "idle"]
  /\ expired_shared_links = [s \in Sweepers |-> {}]
  /\ expired_file_ids = [s \in Sweepers |-> {}]
  /\ sres = [s \in Sweepers |-> "none"]
  /\ sweep_t0 = [s \in Sweepers |-> 0]
  /\ sweep_pre = [s \in Sweepers |-> {}]
  /\ sweep_new = [s \in Sweepers |-> {}]
  /\ last_clean = NoSweep
  /\ abandoned = {}
  /\ overlap_pre = NoOverlap
  /\ users = RegisteredUsers
  /\ lres = NoListing
  /\ walk = NoWalk
  /\ offs = NoOffset
  /\ ures = NoResult
  /\ found = NoSearch
  /\ got = NoLookup

\* get_sent_files / get_receive_files, called: the offset and the first
\* statement. The result waits in lres for the count query; other calls'
\* statements can run on the pool in between.
ListFiles(op, user_id, page, limit) ==
  \E out \in ListPage(op, user_id, page, limit) :
    lres' = [status |-> out.status, op |-> op, user_id |-> user_id,
             page |-> page, limit |-> limit, offset |-> out.offset,
             files |-> out.files, total_count |-> -1]

get_sent_files(user_id, page, limit) == ListFiles("sent", user_id, page, limit)
get_receive_files(user_id, page, limit) == ListFiles("received", user_id, page, limit)

\* A listing request: the request layer validates the query (RequestQueryDto)
\* and only then calls get_sent_files / get_receive_files.
ListRequest(op, user_id, page, limit) ==
  /\ lres = NoListing /\ walk = NoWalk
  /\ IF ValidQuery(page, limit)
     THEN IF op = "sent" THEN get_sent_files(user_id, page, limit)
          ELSE get_receive_files(user_id, page, limit)
     ELSE lres' = [NoListing EXCEPT !.status = "rejected", !.op = op,
                     !.user_id = user_id, !.page = page, !.limit = limit]
  /\ walk' = NoWalk
  /\ UNCHANGED <<store, cvars, svars, hvars, overlap_pre, users, offs, uvars>>

\* The second statement of get_sent_files / get_receive_files (db.rs:472-482,
\* 526-536): the count query over the tables as they are now, and the return
\* of (files, total_count).
ListTotalCount ==
  /\ lres.status = "paged"
  /\ lres' = [lres EXCEPT !.status = "ok",
                          !.total_count = ListCount(lres.op, lres.user_id)]
  /\ UNCHANGED <<store, cvars, svars, hvars, overlap_pre, users, walk, offs, uvars>>

\* A client starts to fetch a listing page by page.
WalkStart(op, user_id, limit) ==
  /\ lres = NoListing /\ walk = NoWalk
  /\ ValidQuery(1, limit)
  /\ walk' = [NoWalk EXCEPT !.op = op, !.user_id = user_id, !.limit = limit, !.page = 1]
  /\ lres' = NoListing
  /\ UNCHANGED <<store, cvars, svars, hvars, overlap_pre, users, offs, uvars>>

\* The client requests its next page: the first statement of the call. A
\* call that panics ends the walk.
WalkPage ==
  /\ walk.page >= 1 /\ ~walk.done /\ ~walk.pending
  /\ \E out \in ListPage(walk.op, walk.user_id, walk.page, walk.limit) :
       walk' = IF out.status = "panic" THEN [walk EXCEPT !.done = TRUE]
               ELSE [walk EXCEPT !.files = walk.files \o out.files, !.pending = TRUE]
  /\ UNCHANGED <<store, cvars, svars, hvars, overlap_pre, users, lres, offs, uvars>>

\* The second statement of that call; the client stops after page
\* ceil(N / limit), N being the total_count it was told.
WalkTotalCount ==
  /\ walk.pending
  /\ LET total_count == ListCount(walk.op, walk.user_id) IN
       walk' = [walk EXCEPT !.counts = walk.counts \cup {total_count},
                            !.page = walk.page + 1,
                            !.pending = FALSE,
                            !.done = (walk.page * walk.limit >= total_count)]
  /\ UNCHANGED <<store, cvars, svars, hvars, overlap_pre, users, lres, offs, uvars>>

ListNext ==
  \/ \E op \in ListOps, u \in Users, page \in PageInputs, limit \in LimitInputs :
       ListRequest(op, u, page, limit)
  \/ ListTotalCount
  \/ \E op \in ListOps, u \in Users, limit \in LimitInputs : WalkStart(op, u, limit)
  \/ WalkPage
  \/ WalkTotalCount

ListSpec == ListInit /\ [][ListNext]_vars

\* The views of all the rows a listing of the user ranges over.
AllViews(op, user_id) == {ListView(op, r) : r \in ListRows(op, user_id)}

\* files is what stands at positions first .. first + Len(files) - 1 when the
\* views are put in descending order of created_at: every item is a view of
\* the user, no item comes twice, and fewer than its position many views are
\* newer than it while at least that many are as new or newer.
StandsAt(op, user_id, first, fs) ==
  LET all == AllViews(op, user_id) IN
  /\ \A i \in 1..Len(fs) :
       /\ fs[i] \in all
       /\ Cardinality({v \in all : v.created_at > fs[i].created_at}) <= first + i - 2
       /\ Cardinality({v \in all : v.created_at >= fs[i].created_at}) >= first + i - 1
  /\ \A i \in 1..Len(fs), j \in 1..Len(fs) : i # j => fs[i] # fs[j]

\* A page holds the items at positions (page - 1) * limit + 1 onwards, as many
\* as there are up to limit.
PageIsSlice ==
  lres.status \in {"paged", "ok"} =>
    LET n == Cardinality(AllViews(lres.op, lres.user_id))
        skip == (lres.page - 1) * lres.limit
    IN  /\ Len(lres.files) = (IF skip >= n THEN 0
                              ELSE IF n - skip < lres.limit THEN n - skip
                              ELSE lres.limit)
        /\ StandsAt(lres.op, lres.user_id, skip + 1, lres.files)

\* The pages 1..ceil(N / limit), fetched one after the other over unchanged
\* tables, hold each of the N items exactly once.
PagesPartition ==
  walk.done =>
    /\ Len(walk.files) = Cardinality(AllViews(walk.op, walk.user_id))
    /\ {walk.files[i] : i \in 1..Len(walk.files)} = AllViews(walk.op, walk.user_id)

\* C12: page contents: a listing with page p >= 1 and page size k returns the
\* items at positions (p-1)*k .. (p-1)*k+k-1 of the user's links in descending
\* order of created_at (min(N, k) items for p = 1, none past the last page),
\* and over unchanged tables the pages 1..ceil(N/k) together contain each of
\* the N items exactly once.
C12_PageContents == PageIsSlice /\ PagesPartition

\* C13: totalCount: over unchanged tables the total_count a listing returns is
\* the same for every page and page size, and it is N, the number of rows the
\* page query ranges over (the count query ranges over the same rows), which
\* is the number of items the pages of the listing yield together.
C13_TotalCount ==
  /\ lres.status = "ok" =>
       lres.total_count = Cardinality(ListRows(lres.op, lres.user_id))
  /\ walk.page >= 2 =>
       walk.counts = {Cardinality(ListRows(walk.op, walk.user_id))}
  /\ walk.done =>
       \A n \in walk.counts : Len(walk.files) = n

\* C14: page = 0 is rejected as invalid input: a request with page = 0 gets no
\* listing, and every offset that is computed is (page - 1) * limit for a page
\* >= 1, not a wrapped value.
C14_PageZeroRejected ==
  /\ (lres.status # "none" /\ lres.page = 0) =>
       /\ lres.status = "rejected"
       /\ lres.files = <<>>
  /\ lres.status \in {"panic", "paged", "ok"} => lres.page >= 1
  /\ lres.status \in {"paged", "ok"} =>
       lres.offset = [hi |-> 0, lo |-> (lres.page - 1) * lres.limit]

C14_Witness ==
  /\ lres.status = "rejected"
  /\ lres.page = 0
  /\ lres.limit >= 1 /\ lres.limit <= MaxLimitDto
  /\ ListRows(lres.op, lres.user_id) # {}

\* C20: the id of every view of a listing is the id of the File the view was
\* derived from: get_file(view id) returns the File of a link of that listing
\* with the view's file name, expiration date and creation time.
C20_ViewIdIsFileId ==
  lres.status \in {"paged", "ok"} =>
    \A i \in 1..Len(lres.files) :
      LET v == lres.files[i] IN
      \E f \in get_file(v.file_id) :
        /\ f.file_name = v.file_name
        /\ \E r \in ListRows(lres.op, lres.user_id) :
             /\ r.f = f
             /\ r.l.expiration_date = v.expiration_date
             /\ r.l.created_at = v.created_at

\* ===================================================== search_by_email
\* email LIKE $1 as PostgreSQL's MatchText evaluates it (default escape
\* character backslash): "%" any run of characters, "_" any one character,
\* backslash takes the next character literally, and a pattern that ends
\* with the escape character raises an error once the matching reaches it.
RECURSIVE AllPercent(_)
AllPercent(p) == p = <<>> \/ (Head(p) = "%" /\ AllPercent(Tail(p)))

RECURSIVE MatchText(_, _)
RECURSIVE AfterPercent(_, _)
RECURSIVE ScanText(_, _, _)
MatchText(t, p) ==
  IF t = <<>> \/ p = <<>>
  THEN IF t # <<>> THEN "false"
       ELSE IF AllPercent(p) THEN "true" ELSE "abort"
  ELSE IF Head(p) = "\\"
  THEN IF Len(p) = 1 THEN "error"
       ELSE IF p[2] # Head(t) THEN "false"
       ELSE MatchText(Tail(t), Tail(Tail(p)))
  ELSE IF Head(p) = "%" THEN AfterPercent(t, Tail(p))
  ELSE IF Head(p) = "_" THEN MatchText(Tail(t), Tail(p))
  ELSE IF Head(p) # Head(t) THEN "false"
  ELSE MatchText(Tail(t), Tail(p))

\* After a "%": further wildcards are consumed, then the text is scanned for
\* the first literal character of the rest of the pattern.
AfterPercent(t, p) ==
  IF p = <<>> THEN "true"
  ELSE IF Head(p) = "%" THEN AfterPercent(t, Tail(p))
  ELSE IF Head(p) = "_"
  THEN IF t = <<>> THEN "abort" ELSE AfterPercent(Tail(t), Tail(p))
  ELSE IF Head(p) = "\\" /\ Len(p) < 2 THEN "error"
  ELSE ScanText(t, p, IF Head(p) = "\\" THEN p[2] ELSE Head(p))

ScanText(t, p, firstpat) ==
  IF t = <<>> THEN "abort"
  ELSE IF Head(t) = firstpat
  THEN LET matched == MatchText(t, p)
       IN  IF matched # "false" THEN matched ELSE ScanText(Tail(t), p, firstpat)
  ELSE ScanText(Tail(t), p, firstpat)

Like(t, p) == MatchText(t, p) = "true"
LikeRaises(t, p) == MatchText(t, p) = "error"

\* The other two conditions of the WHERE clause.
SearchFilters == {"public_key IS NOT NULL", "id != $2"}
Passes(u, user_id, filter) ==
  IF filter = "id != $2" THEN u.id # user_id ELSE u.public_key # Null

\* The WHERE clause without "AND id != $2".
SearchRowsWithRequester(us, user_id, query) ==
  {u \in us : Like(u.email, query) /\ u.public_key # Null}

\* SELECT ... FROM users WHERE email LIKE $1 AND public_key IS NOT NULL AND id != $2
SearchRows(us, user_id, query) ==
  {u \in us : Like(u.email, query) /\ u.public_key # Null /\ u.id # user_id}

\* The outcomes of search_by_email. The conjuncts of the WHERE clause are
\* evaluated in an order the planner chooses, and a row that fails an earlier
\* conjunct never reaches the later ones: `first` are the conditions placed
\* before the LIKE. The statement fails when the LIKE raises on a row that
\* reaches it.
search_by_email(us, user_id, query) ==
  {IF \E u \in us : /\ \A c \in first : Passes(u, user_id, c)
                    /\ LikeRaises(u.email, query)
   THEN [status |-> "error", rows |-> {}]
   ELSE [status |-> "ok", rows |-> SearchRows(us, user_id, query)] :
     first \in SUBSET SearchFilters}

\* Longest pattern searched for.
MaxPattern == 3
PatternChars == {"a", "@", "%", "_", "\\"}
Patterns == UNION {[1..n -> PatternChars] : n \in 0..MaxPattern}
Keys == {"pk1"}
\* A requester, or an id of no user.
Requesters == 1..4
\* Emails of the tables searched.
SearchEmails == Emails \cup {<<"a", "@", "b">>}

\* Idle handlers and sweeps, nothing observed yet.
NoCalls ==
  /\ cpc = [c \in Handlers |-> "idle"]
  /\ cargs = [c \in Handlers |-> NoArgs]
  /\ cfile = [c \in Handlers |-> 0]
  /\ clink = [c \in Handlers |-> 0]
  /\ cres = [c \in Handlers |-> "none"]
  /\ spc = [s \in Sweepers |-> "idle"]
  /\ expired_shared_links = [s \in Sweepers |-> {}]
  /\ expired_file_ids = [s \in Sweepers |-> {}]
  /\ sres = [s \in Sweepers |-> "none"]
  /\ sweep_t0 = [s \in Sweepers |-> 0]
  /\ sweep_pre = [s \in Sweepers |-> {}]
  /\ sweep_new = [s \in Sweepers |-> {}]
  /\ last_clean = NoSweep
  /\ abandoned = {}
  /\ overlap_pre = NoOverlap
  /\ lres = NoListing
  /\ walk = NoWalk
  /\ offs = NoOffset
  /\ ures = NoResult
  /\ found = NoSearch
  /\ got = NoLookup

\* Table users after n registrations with distinct emails, some of the users
\* having stored a public key since.
SearchInit ==
  /\ \E n \in 0..Cardinality(SearchEmails) :
       \E e \in [1..n -> SearchEmails], k \in [1..n -> Keys \cup {Null}] :
         /\ \A i \in 1..n, j \in 1..n : e[i] = e[j] => i = j
         /\ users = {[UserRow(j, UserName(j), e[j], "hash", 0) EXCEPT !.public_key = k[j]] :
                       j \in 1..n}
         /\ next_uuid = n + 1
  /\ now = 0
  /\ files = {}
  /\ links = {}
  /\ NoCalls

Search(user_id, query) ==
  /\ found = NoSearch
  /\ \E out \in search_by_email(users, user_id, query) :
       found' = [user_id |-> user_id, query |-> query,
                 status |-> out.status, rows |-> out.rows]
  /\ UNCHANGED <<store, cvars, svars, hvars, overlap_pre, users, lvars, ures, got>>

SearchNext == \E user_id \in Requesters, query \in Patterns : Search(user_id, query)

SearchSpec == SearchInit /\ [][SearchNext]_vars

\* C15: the result of search_by_email contains neither the requester nor a
\* user without a public key, and it contains every other user that has a
\* public key and whose email matches the pattern.
C15_SearchExcludesAndIncludes ==
  found.status = "ok" =>
    /\ \A u \in found.rows : u \in users /\ u.id # found.user_id /\ u.public_key # Null
    /\ \A u \in users :
         (u.id # found.user_id /\ u.public_key # Null /\ Like(u.email, found.query))
           => u \in found.rows

\* A search by a key-enrolled requester whose own email matches the pattern,
\* with another key-enrolled match and a keyless match in the table.
C15_Witness ==
  /\ found.status = "ok"
  /\ found.rows # {}
  /\ \E u \in users : u.id = found.user_id /\ u.public_key # Null
                        /\ Like(u.email, found.query)
  /\ \E u \in users : u.public_key = Null /\ Like(u.email, found.query)

\* ========================================================= table users
\* Latest time of the clock while users register and update their accounts.
MaxUserTime == 2
\* Password hashes of the accounts.
PasswordHashes == {"hash", "hash2"}

\* users.email is UNIQUE: the INSERT is refused when the email is taken.
EmailTaken(us, email) == \E u \in us : u.email = email

\* INSERT ... ON CONFLICT (email) DO UPDATE in place of the plain INSERT.
save_user_upsert(us, id, name, email, password, t) ==
  [status |-> "ok", id |-> id,
   users  |-> {u \in us : u.email # email} \cup {UserRow(id, name, email, password, t)}]

\* save_user: one INSERT; the error of the statement is returned by `?`.
save_user(us, id, name, email, password, t) ==
  IF EmailTaken(us, email)
  THEN [status |-> "unique_violation", id |-> 0, users |-> us]
  ELSE [status |-> "ok", id |-> id,
        users  |-> us \cup {UserRow(id, name, email, password, t)}]

\* SET <field> = $1, updated_at = Now(), and created_at as well.
SetFieldAndCreatedAt(u, field, value, t) ==
  [u EXCEPT ![field] = value, !.updated_at = t, !.created_at = t]

\* SET <field> = $1, updated_at = Now()
SetField(u, field, value, t) == [u EXCEPT ![field] = value, !.updated_at = t]

\* fetch_optional in place of fetch_one: no row is no error.
fetch_one_or_none(rows) == "ok"

\* fetch_one: Err(RowNotFound) when the statement returns no row.
fetch_one(rows) == IF rows = {} THEN "row_not_found" ELSE "ok"

\* UPDATE users SET <field> = $1, updated_at = Now() WHERE id = $2 RETURNING ...
UpdateUsers(us, user_id, field, value, t) ==
  LET hit == {u \in us : u.id = user_id}
      set == {SetField(u, field, value, t) : u \in hit}
  IN  [status |-> fetch_one(set), id |-> user_id, users |-> (us \ hit) \cup set]

update_user_name(us, user_id, new_name, t) == UpdateUsers(us, user_id, "name", new_name, t)
update_user_password(us, user_id, new_password, t) ==
  UpdateUsers(us, user_id, "password", new_password, t)
save_user_key(us, user_id, public_key, t) ==
  UpdateUsers(us, user_id, "public_key", public_key, t)

\* A fresh database, or the two registered users and one upload between them.
UserInit ==
  /\ \/ /\ users = {}
        /\ files = {}
        /\ links = {}
        /\ next_uuid = 1
     \/ /\ users = RegisteredUsers
        /\ files = {FileRow(3, ShareArgs(1, 2), 0)}
        /\ links = {LinkRow(4, 3, ShareArgs(1, 2), 0)}
        /\ next_uuid = 5
  /\ now = 0
  /\ NoCalls

UserTick ==
  /\ now < MaxUserTime
  /\ Tick

UserCall(op, out) ==
  /\ users' = out.users
  /\ ures' = [op |-> op, status |-> out.status, id |-> out.id]
  /\ UNCHANGED <<now, files, links, cvars, svars, hvars, overlap_pre, lvars, found, got>>

SaveUser(name, email, password) ==
  /\ EmailTaken(users, email) \/ next_uuid <= MaxUuid
  /\ LET out == save_user(users, next_uuid, name, email, password, now)
     IN  /\ UserCall("save_user", out)
         /\ next_uuid' = IF out.status = "ok" THEN next_uuid + 1 ELSE next_uuid

UpdateUserName(user_id, new_name) ==
  /\ UserCall("update_user_name", update_user_name(users, user_id, new_name, now))
  /\ UNCHANGED next_uuid

UpdateUserPassword(user_id, new_password) ==
  /\ UserCall("update_user_password",
              update_user_password(users, user_id, new_password, now))
  /\ UNCHANGED next_uuid

SaveUserKey(user_id, public_key) ==
  /\ UserCall("save_user_key", save_user_key(users, user_id, public_key, now))
  /\ UNCHANGED next_uuid

UserNext ==
  \/ UserTick
  \/ \E name \in Names, email \in Emails, password \in PasswordHashes :
       SaveUser(name, email, password)
  \/ \E user_id \in Uuids, new_name \in Names : UpdateUserName(user_id, new_name)
  \/ \E user_id \in Uuids, new_password \in PasswordHashes :
       UpdateUserPassword(user_id, new_password)
  \/ \E user_id \in Uuids, public_key \in Keys : SaveUserKey(user_id, public_key)

UserSpec == UserInit /\ [][UserNext]_vars

\* C16: save_user fails with a uniqueness conflict and leaves table users as
\* it was when the email is taken, otherwise it inserts exactly one user; in
\* every state no two users share an email.
C16_SaveUserConflict ==
  [][/\ \A name \in Names, email \in Emails, password \in PasswordHashes :
          (ures'.op = "save_user" /\ SaveUser(name, email, password)) =>
            IF \E u \in users : u.email = email
            THEN ures'.status = "unique_violation" /\ users' = users
            ELSE /\ ures'.status = "ok"
                 /\ users \subseteq users'
                 /\ \E u \in users' \ users :
                      /\ users' \ users = {u}
                      /\ u.name = name /\ u.email = email /\ u.password = password
     /\ \A u \in users', w \in users' : u.email = w.email => u = w]_vars

\* A registration refused for its email, the other registered user kept.
C16_Witness ==
  /\ ures.op = "save_user" /\ ures.status = "unique_violation"
  /\ Cardinality(users) = 2
  /\ \E u \in users : u.created_at > 0

\* C17: update_user_name, update_user_password and save_user_key with an id
\* of no user fail with RowNotFound and leave every user as it was.
C17_UpdateUnknownId ==
  [][\A user_id \in Uuids :
       (\A u \in users : u.id # user_id) =>
         /\ \A new_name \in Names :
              (ures'.op = "update_user_name" /\ UpdateUserName(user_id, new_name)) =>
                ures'.status = "row_not_found" /\ users' = users
         /\ \A new_password \in PasswordHashes :
              (ures'.op = "update_user_password"
                 /\ UpdateUserPassword(user_id, new_password)) =>
                ures'.status = "row_not_found" /\ users' = users
         /\ \A public_key \in Keys :
              (ures'.op = "save_user_key" /\ SaveUserKey(user_id, public_key)) =>
                ures'.status = "row_not_found" /\ users' = users]_vars

\* An update refused for its id while there are users it could have hit.
C17_Witness ==
  /\ ures.op \in {"update_user_name", "update_user_password", "save_user_key"}
  /\ ures.status = "row_not_found"
  /\ users # {}
  /\ \A u \in users : u.id # ures.id

\* The one row with the given id changed in the target field and updated_at
\* only; every other user, the files and the links as they were.
UpdateFrame(user_id, field, value) ==
  /\ Cardinality({u \in users : u.id = user_id}) = 1
  /\ Cardinality(users') = Cardinality(users)
  /\ \A u \in users : u.id # user_id => u \in users'
  /\ \A u \in users, w \in users' :
       (u.id = user_id /\ w.id = user_id) =>
         /\ \A other \in (DOMAIN u) \ {field, "updated_at"} : w[other] = u[other]
         /\ w[field] = value
         /\ w.updated_at = now
  /\ files' = files
  /\ links' = links

\* C19: a successful update_user_name, update_user_password or save_user_key
\* changes only the target field and updated_at of the user with the given
\* id, and nothing else in the store.
C19_UpdateFrame ==
  [][\A user_id \in Uuids :
       /\ \A new_name \in Names :
            (ures'.status = "ok" /\ ures'.op = "update_user_name"
             /\ UpdateUserName(user_id, new_name))
              => UpdateFrame(user_id, "name", new_name)
       /\ \A new_password \in PasswordHashes :
            (ures'.status = "ok" /\ ures'.op = "update_user_password"
             /\ UpdateUserPassword(user_id, new_password))
              => UpdateFrame(user_id, "password", new_password)
       /\ \A public_key \in Keys :
            (ures'.status = "ok" /\ ures'.op = "save_user_key"
             /\ SaveUserKey(user_id, public_key))
              => UpdateFrame(user_id, "public_key", public_key)]_vars

\* A later update of one of two users, with a file and a link stored.
C19_Witness ==
  /\ ures.op \in {"update_user_name", "update_user_password", "save_user_key"}
  /\ ures.status = "ok"
  /\ \E u \in users : u.id = ures.id /\ u.updated_at > u.created_at
  /\ \E u \in users : u.id # ures.id
  /\ files # {} /\ links # {}

\* ====================================================== opaque content
\* C18: from the INSERT of a file by save_encrypted_file on, and until the
\* file is deleted, get_file of its id returns the file_name, file_size,
\* encrypted_aes_key, encrypted_file and iv that were passed to the call; no
\* step changes a field of a stored file: a file row is kept as it is or
\* deleted.
C18_OpaqueContent ==
  [][/\ \A c \in Handlers :
          cfile'[c] # 0 =>
            \A f \in fetch_optional(FileRows(files', cfile'[c])) :
              /\ f.file_name = cargs'[c].file_name
              /\ f.file_size = cargs'[c].file_size
              /\ f.encrypted_aes_key = cargs'[c].encrypted_aes_key
              /\ f.encrypted_file = cargs'[c].encrypted_file
              /\ f.iv = cargs'[c].iv
     /\ \A f \in files : f \in files' \/ FileRows(files', f.id) = {}]_vars

\* A file fetched after its upload has returned and a sweep has deleted
\* other rows.
C18_Witness ==
  \E c \in Handlers :
    /\ cres[c] = "ok"
    /\ \E f \in get_file(cfile[c]) : f.created_at < now
    /\ \E s \in Sweepers : sres[s] = "ok"

\* ============================================== identity-bounded listing
\* The links whose File is owned by the user, and those addressed to the user.
LinksSentBy(user_id) ==
  {l \in links : \E f \in files : l.file_id = f.id /\ f.user_id = user_id}
LinksReceivedBy(user_id) ==
  {l \in links : l.recipient_user_id = user_id /\ \E f \in files : l.file_id = f.id}

\* v is a view of link l and its File f with the email of user `other` as
\* counterpart (the id of the view is the one of the File or of the link).
IsViewOf(v, l, f, other) ==
  /\ l.file_id = f.id
  /\ v.file_id \in {f.id, l.id}
  /\ v.file_name = f.file_name
  /\ v.expiration_date = l.expiration_date
  /\ v.created_at = l.created_at
  /\ \E u \in users : u.id = other /\ v.email = u.email

\* C21: get_sent_files(owner) returns views only of links whose File is owned
\* by the owner, with the recipient's email; get_receive_files(recipient)
\* returns views only of links addressed to the recipient, with the email of
\* the File's owner; total_count counts those links and no others.
C21_IdentityBoundedListing ==
  /\ lres.status \in {"paged", "ok"} =>
       \A i \in 1..Len(lres.files) :
         \E l \in links, f \in files :
           IF lres.op = "sent"
           THEN /\ f.user_id = lres.user_id
                /\ IsViewOf(lres.files[i], l, f, l.recipient_user_id)
           ELSE /\ l.recipient_user_id = lres.user_id
                /\ IsViewOf(lres.files[i], l, f, f.user_id)
  /\ lres.status = "ok" =>
       lres.total_count =
         (IF lres.op = "sent" THEN Cardinality(LinksSentBy(lres.user_id))
          ELSE Cardinality(LinksReceivedBy(lres.user_id)))

\* A listing with items while the tables hold a link the user neither owns
\* nor receives, and one that the user owns and another user receives.
C21_Witness ==
  /\ lres.status = "ok"
  /\ Len(lres.files) >= 1
  /\ \E l \in links, f \in files :
       /\ l.file_id = f.id
       /\ f.user_id # lres.user_id /\ l.recipient_user_id # lres.user_id
  /\ \E l \in links, f \in files :
       /\ l.file_id = f.id
       /\ (f.user_id = lres.user_id) # (l.recipient_user_id = lres.user_id)

\* ================================================= concurrent uploads
\* The handlers of both users upload at the same time while the reaper runs;
\* no statement fails.
\* An upload for the other user, with a link that expires at the next tick.
ShortShare(c) ==
  /\ Validate(c)
  /\ cpc'[c] = "validated" =>
       /\ cargs'[c].expiration_date = now + 1
       /\ cargs'[c].user_id = c
       /\ cargs'[c].recipient_user_id \in Users \ {c}

UploadNext ==
  \/ Tick
  \/ \E c \in Handlers : ShortShare(c)
  \/ \E c \in Handlers : InsertFile(c)
  \/ \E c \in Handlers : InsertLink(c)
  \/ \E s \in {Reaper} : StartSweep(s)
  \/ \E s \in {Reaper} : SelectLinks(s)
  \/ \E s \in {Reaper} : SelectFiles(s)
  \/ \E s \in {Reaper} : DeleteLinks(s)
  \/ \E s \in {Reaper} : DeleteFiles(s)

UploadSpec == Init /\ [][UploadNext]_vars

\* The links that refer to the file.
LinksOf(ls, file_id) == {l \in ls : l.file_id = file_id}

\* C22: the first statement of save_encrypted_file adds exactly one File and
\* the second, with which the call succeeds, exactly one SharedLink that
\* refers to that File; neither changes an existing File, SharedLink or User;
\* no File is ever referred to by more than one SharedLink.
C22_OneLinkPerUpload ==
  [][/\ \A c \in Handlers :
          /\ (cpc[c] = "validated" /\ InsertFile(c)) =>
               /\ files \subseteq files'
               /\ Cardinality(files' \ files) = 1
               /\ \A f \in files' \ files :
                    f.id = cfile'[c] /\ FileRows(files, f.id) = {} /\ LinksOf(links, f.id) = {}
               /\ links' = links /\ users' = users
          /\ (cpc[c] = "file_inserted" /\ InsertLink(c)) =>
               /\ cres'[c] = "ok"
               /\ links \subseteq links'
               /\ Cardinality(links' \ links) = 1
               /\ \A l \in links' \ links :
                    /\ l.file_id = cfile[c]
                    /\ FileRows(files', l.file_id) # {}
                    /\ \A x \in links : x.id # l.id
               /\ files' = files /\ users' = users
     /\ \A f \in files' : Cardinality(LinksOf(links', f.id)) <= 1]_vars

\* Both handlers have uploaded with success, one during the other's call, and
\* both Files and both SharedLinks are stored.
C22_Witness ==
  /\ \A c \in Handlers : cres[c] = "ok" /\ cpc[c] = "idle"
  /\ \E c \in Handlers, d \in Handlers : cfile[c] < cfile[d] /\ clink[d] < clink[c]
  /\ \A c \in Handlers : FileRows(files, cfile[c]) # {} /\ LinksOf(links, cfile[c]) # {}

\* ==================================================== no implicit retry
\* C23: when a statement of save_encrypted_file or delete_expired_files
\* fails, the call returns the error at once: the failed statement writes
\* nothing, the call is over, and neither that statement nor a later one of
\* the call is issued. While no upload is under way no row is inserted, and
\* while no sweep is under way no row is deleted: after a failed INSERT INTO
\* files there is no file and no link of the call, and after a failed DELETE
\* FROM shared_links the selected links and their files stay.
C23_NoImplicitRetry ==
  [][/\ \A c \in {Uploader} :
          /\ (cpc[c] # "idle" /\ SaveFail(c)) =>
               /\ cpc'[c] = "idle" /\ cres'[c] = "err"
               /\ files' = files /\ links' = links
               /\ cpc[c] = "validated" => cfile'[c] = 0 /\ clink'[c] = 0
               /\ cpc[c] = "file_inserted" => clink'[c] = 0
          /\ cpc[c] = "idle" =>
               /\ ~ ENABLED InsertFile(c) /\ ~ ENABLED InsertLink(c)
               /\ files' \subseteq files /\ links' \subseteq links
          /\ (cres[c] = "err" /\ cres'[c] = "err") =>
               cfile'[c] = cfile[c] /\ clink'[c] = clink[c]
     /\ \A s \in {Reaper} :
          /\ (spc[s] # "idle" /\ SweepFail(s)) =>
               /\ spc'[s] = "idle" /\ sres'[s] = "err"
               /\ files' = files /\ links' = links
          /\ spc[s] = "idle" =>
               /\ ~ ENABLED SelectLinks(s) /\ ~ ENABLED SelectFiles(s)
               /\ ~ ENABLED DeleteLinks(s) /\ ~ ENABLED DeleteFiles(s)
               /\ files \subseteq files' /\ links \subseteq links']_vars

\* A sweep has failed with an expired link selected and still stored, and an
\* upload has failed at its first statement with no file of it stored.
C23_Witness ==
  /\ sres[Reaper] = "err" /\ spc[Reaper] = "idle"
  /\ \E l \in links : l.expiration_date < now /\ FileRows(files, l.file_id) # {}
  /\ cres[Uploader] = "err" /\ cpc[Uploader] = "idle"
  /\ cfile[Uploader] = 0 /\ clink[Uploader] = 0

\* ============================================================= get_user
\* fetch_optional of a query that can match several rows: None, or any one
\* of the rows.
FetchAnyOne(rows) == IF rows = {} THEN {{}} ELSE {{r} : r \in rows}

\* Mutant of get_user: a lookup that finds nothing goes on to the next
\* criterion supplied.
get_user_fall_through(us, user_id, name, email) ==
  LET by_id == {u \in us : u.id \in user_id}
      by_name == {u \in us : u.name \in name}
      by_email == {u \in us : u.email \in email}
  IN  IF by_id # {} THEN FetchAnyOne(by_id)
      ELSE IF by_name # {} THEN FetchAnyOne(by_name)
      ELSE FetchAnyOne(by_email)

\* get_user: if let Some(user_id) ... else if let Some(name) ... else if let
\* Some(email) ...; the results the call can return.
get_user(us, user_id, name, email) ==
  IF user_id # {} THEN FetchAnyOne({u \in us : u.id \in user_id})
  ELSE IF name # {} THEN FetchAnyOne({u \in us : u.name \in name})
  ELSE IF email # {} THEN FetchAnyOne({u \in us : u.email \in email})
  ELSE {{}}

\* The arguments of get_user: ids, names and emails of users and of nobody.
Option(S) == {{}} \cup {{x} : x \in S}
LookupIds == Option(Requesters)
LookupNames == Option(Names \cup {"eve"})
LookupEmails == Option(SearchEmails \cup {<<"e", "@", "c">>})

Lookup(user_id, name, email) ==
  /\ ~ got.called
  /\ \E user \in get_user(users, user_id, name, email) :
       got' = [called |-> TRUE, user_id |-> user_id, name |-> name,
               email |-> email, user |-> user]
  /\ UNCHANGED <<store, cvars, svars, hvars, overlap_pre, users, lvars, ures, found>>

LookupNext ==
  \E user_id \in LookupIds, name \in LookupNames, email \in LookupEmails :
    Lookup(user_id, name, email)

LookupSpec == SearchInit /\ [][LookupNext]_vars

\* The result is a user that meets the criterion, and absent if none does.
FoundBy(user, matching) ==
  IF matching = {} THEN user = {} ELSE user # {} /\ user \subseteq matching

\* C24: get_user looks up by the id alone when an id is supplied, else by the
\* name alone when a name is supplied, else by the email; an id of no user
\* gives absent whatever name and email are supplied; no criterion gives
\* absent.
C24_LookupPrecedence ==
  got.called =>
    IF got.user_id # {} THEN FoundBy(got.user, {u \in users : {u.id} = got.user_id})
    ELSE IF got.name # {} THEN FoundBy(got.user, {u \in users : {u.name} = got.name})
    ELSE IF got.email # {} THEN FoundBy(got.user, {u \in users : {u.email} = got.email})
    ELSE got.user = {}

\* A lookup with an id of no user and with the name and the email of users.
C24_Witness ==
  /\ got.called
  /\ got.user_id # {} /\ \A u \in users : {u.id} # got.user_id
  /\ \E u \in users : {u.name} = got.name
  /\ \E u \in users : {u.email} = got.email
  /\ got.user = {}

\* ======================================== retrieval and the reaper
\* C25: in every state, whenever get_shared returns a link, get_file of the
\* link's file_id returns a File.
C25_RetrievalFindsFile ==
  \A shared_id \in Uuids, user_id \in Users :
    \A l \in get_shared(shared_id, user_id) : get_file(l.file_id) # {}

\* A link is retrieved with its File while a sweep is between its two
\* deletions, the link of another File deleted and that File about to be.
C25_Witness ==
  /\ \E shared_id \in Uuids, user_id \in Users :
       \E l \in get_shared(shared_id, user_id) : get_file(l.file_id) # {}
  /\ spc[Reaper] = "links_deleted"
  /\ \E f \in files : f.id \in expired_file_ids[Reaper] /\ LinksOf(links, f.id) = {}

\* C26: when a sweep deletes a SharedLink, get_shared of that link for its
\* recipient already returns absent; a link whose expiration_date is the
\* current time is neither returned by get_shared nor selected by a sweep.
C26_SweepDeletesUnretrievable ==
  [][/\ \A l \in links \ links' : get_shared(l.id, l.recipient_user_id) = {}
     /\ \A l \in links :
          l.expiration_date = now =>
            /\ get_shared(l.id, l.recipient_user_id) = {}
            /\ \A s \in Sweepers :
                 SelectLinks(s) => l.id \notin expired_shared_links'[s]]_vars

\* A sweep has deleted the links it selected and kept a link that expires at
\* the current time.
C26_Witness ==
  /\ spc[Reaper] = "links_deleted"
  /\ expired_shared_links[Reaper] # {}
  /\ \E l \in links : l.expiration_date = now /\ l.id \notin expired_shared_links[Reaper]

\* ================================================== offset arithmetic
\* Pages of type u32, small ones, the largest, and those around the first
\* page whose offset with limit 50 does not fit 32 bits: 85899347, which is
\* 1310 * 65536 + 47187.
PagesU32 ==
  {[hi |-> h, lo |-> l] : h \in {0, 1, 1310, 1311, Half - 1},
                          l \in {0, 1, 2, 47186, 47187, 47188, Half - 1}}

\* A listing request with a page of any size: validation (page >= 1, limit
\* in 1..50), then the offset.
OffsetRequest(page, limit) ==
  /\ offs = NoOffset
  /\ IF U32AtLeast(page, 1) /\ limit >= 1 /\ limit <= MaxLimitDto
     THEN \E out \in Offset(page, limit) :
            offs' = [status |-> out.status, page |-> page, limit |-> limit,
                     offset |-> out.offset]
     ELSE offs' = [NoOffset EXCEPT !.status = "rejected", !.page = page, !.limit = limit]
  /\ UNCHANGED <<store, cvars, svars, hvars, overlap_pre, users, lres, walk, uvars>>

OffsetNext == \E page \in PagesU32, limit \in LimitInputs : OffsetRequest(page, limit)

OffsetSpec == Init /\ [][OffsetNext]_vars

\* (page - 1) * limit as a number, for page >= 1, in units of Half and a rest
\* below Half.
Product(page, limit) ==
  LET x == IF page.lo > 0 THEN [page EXCEPT !.lo = page.lo - 1]
           ELSE [hi |-> page.hi - 1, lo |-> Half - 1] IN
  [hi |-> x.hi * limit + (x.lo * limit) \div Half, lo |-> (x.lo * limit) % Half]

\* C27: for every page >= 1 of type u32 and every limit from 1 to 50 the
\* offset is computed, and it is the number (page - 1) * limit.
C27_OffsetIsExact ==
  offs.status \notin {"none", "rejected"} =>
    /\ offs.status = "ok"
    /\ offs.offset = Product(offs.page, offs.limit)

\* ================================================ listings and expiry
\* The whole listing of a user: page 1 with the largest page size (the call
\* and its first statement).
ListAll(op, user_id) == ListRequest(op, user_id, 1, MaxLimitDto)

\* Uploads that expire at the next tick, the reaper, the clock, and one
\* listing at any moment.
ExpiryNext ==
  \/ Tick
  \/ \E c \in {Uploader} : ShortShare(c)
  \/ \E c \in {Uploader} : InsertFile(c)
  \/ \E c \in {Uploader} : InsertLink(c)
  \/ \E s \in {Reaper} : StartSweep(s)
  \/ \E s \in {Reaper} : SelectLinks(s)
  \/ \E s \in {Reaper} : SelectFiles(s)
  \/ \E s \in {Reaper} : DeleteLinks(s)
  \/ \E s \in {Reaper} : DeleteFiles(s)
  \/ \E op \in ListOps, u \in Users : ListAll(op, u)
  \/ ListTotalCount

ExpirySpec == Init /\ [][ExpiryNext]_vars

\* The items of the listing just returned.
Listed == {lres'.files[i] : i \in 1..Len(lres'.files)}

\* The stored links addressed to a user.
AddressedTo(u) == {l \in links : l.recipient_user_id = u}

\* C28: listings are not filtered by expiry: every stored SharedLink addressed
\* to the user, expired or not, is an item of what the page query of
\* get_receive_files returns and is counted by its count query for as long as
\* no sweep has deleted it, and a link that is deleted is an item of no page.
C28_ListedUntilSwept ==
  [][/\ \A u \in Users :
          (lres = NoListing /\ ListAll("received", u)) =>
            /\ \A l \in AddressedTo(u) : \E v \in Listed : v.file_id = l.id
            /\ \A v \in Listed : \E l \in AddressedTo(u) : v.file_id = l.id
     /\ (lres.status = "paged" /\ lres.op = "received" /\ ListTotalCount) =>
          lres'.total_count = Cardinality(AddressedTo(lres.user_id))]_vars

=============================================================================
